---- MODULE Spec2Model ----
(***************************************************************************)
(* Model of the Node-RED / Tuya integration layer:                         *)
(*   - the Forwarding API (main.py): startup of the bulb handle, the       *)
(*     notification, code and test-sequence routes, background dispatch;   *)
(*   - the Flow Importer (auto-import-flows.py): one run of the one-shot   *)
(*     tool and the exit code of its process.                              *)
(* Strings are sequences of one-character strings, so that strip() and     *)
(* upper() are computed and not assumed.                                   *)
(***************************************************************************)
EXTENDS Naturals, Integers, Sequences, FiniteSets, TLC

VARIABLES
    \* ---- Forwarding API (main.py) ----
    phase,        \* "startup" | "serving" | "stopped": position of lifespan
    bulb,         \* the global handle: "None" | "obj"
    initStep,     \* number of startup device operations completed (0..InitOps)
    allowIp,      \* ALLOW_IP: "" (unset) or an address
    handled,      \* requests handled so far, each with its response
    tasks,        \* background tasks added with add_task, in order
    deviceColor,  \* last color command the device accepted
    lastIssuer,   \* index of the task whose command the device accepted last
    interleaved,  \* TRUE once a task resumed after another task's command
    proxied,      \* health and sensors requests handled, with their responses
    \* ---- Flow Importer (auto-import-flows.py) ----
    ipc,          \* position of main()/run()
    fileState,    \* state of flows.json on disk
    attempt,      \* loop variable of wait_for_node_red
    slept,        \* TRUE when a retry sleep happened since the last GET /
    sent,         \* requests sent to the engine, in order
    tabInReply,   \* whether the reply to GET /flows held the target tab
    vphase,       \* which verify_endpoints call: "none" | "existing" | "final"
    vreq,         \* paths requested by the current/last verification sweep
    vstat,        \* outcome of each request of the current/last sweep
    allWorking,   \* all_working of the current/last sweep
    runResult,    \* how run() ended: "running" | "True" | "False" | exception
    stepFailed,   \* the step whose failure was observed last ("none" if none)
    exitCode      \* exit status of the importer process (-1: still running)

apiVars == <<phase, bulb, initStep, allowIp, handled, tasks, deviceColor,
             lastIssuer, interleaved>>
impVars == <<ipc, fileState, attempt, slept, sent, tabInReply, vphase, vreq,
             vstat, allWorking, runResult, stepFailed, exitCode>>
cliVars == <<proxied>>
vars == <<apiVars, impVars, cliVars>>

\* ------------------------------------------------------------------ bounds
MaxLen == 2        \* longest code / UserString text explored
MaxReq == 2        \* requests handled by the API in one behaviour
MaxFlows == 2      \* longest flow list the engine replies with

\* ----------------------------------------------------------------- strings
Chars == {"a", "A", "v", "V", "b", "B", "r", "R", "x", " "}

Strings(n) == UNION {[1..k -> Chars] : k \in 0..n}

\* str.upper(), one character
UpperChar(c) ==
    CASE c = "a" -> "A"
      [] c = "v" -> "V"
      [] c = "b" -> "B"
      [] c = "r" -> "R"
      [] c = "x" -> "X"
      [] OTHER -> c

upper(s) == [i \in DOMAIN s |-> UpperChar(s[i])]

IsSpace(c) == c = " "

RECURSIVE lstrip(_)
lstrip(s) ==
    IF s = <<>> THEN s
    ELSE IF IsSpace(Head(s)) THEN lstrip(Tail(s)) ELSE s

RECURSIVE rstrip(_)
rstrip(s) ==
    IF s = <<>> THEN s
    ELSE IF IsSpace(s[Len(s)]) THEN rstrip(SubSeq(s, 1, Len(s) - 1)) ELSE s

strip(s) == rstrip(lstrip(s))

\* ------------------------------------------------------------------ colors
COLOR_MAP ==
    (<<"A">> :> "verde") @@ (<<"V">> :> "rojo") @@
    (<<"B">> :> "azul") @@ (<<"R">> :> "blanco")

COLOR_MAP_get(k, default) ==
    IF k \in DOMAIN COLOR_MAP THEN COLOR_MAP[k] ELSE default

\* bulb.blink(color): a brief flash, then the color is held
BlinkOps(c) == <<c, "negro", c>>

\* apply_code, after its null check: the name it returns and the device
\* commands it issues
apply_code_name(code) == COLOR_MAP_get(upper(strip(code)), "negro")

\* apply_code flashing the color without holding it afterwards
apply_code_ops_flash_only(code) == <<apply_code_name(code), "negro">>

apply_code_ops(code) ==
    LET c == upper(strip(code)) IN
    IF c = <<"A">> THEN BlinkOps("verde")
    ELSE IF c = <<"V">> THEN BlinkOps("rojo")
    ELSE IF c = <<"B">> THEN BlinkOps("azul")
    ELSE IF c = <<"R">> THEN BlinkOps("blanco")
    ELSE <<"negro">>

\* the closure seq() of tuya_test
seq_ops == <<"rojo", "verde", "azul", "blanco", "negro">>

\* the startup sequence of lifespan: connect, four colors, negro
InitSeq == <<"connect", "rojo", "verde", "azul", "blanco", "negro">>
InitOps == Len(InitSeq)

\* ------------------------------------------------- Forwarding API: inputs
Hosts == {"ip1", "ip2"}
\* request.client: an address, or "none" when the server gives no client
Clients == Hosts \cup {"none"}

\* Request bodies of the notification route.
\*   empty     no bytes
\*   malformed bytes that are no XML document
\*   noelem    an XML document without a <UserString> element
\*   rootelem  a document whose root is <UserString> (find() sees children only)
\*   notext    a document with an empty <UserString/> child
\*   text      a document with a <UserString>text</UserString> child
Body(kind, text) == [kind |-> kind, text |-> text]
NoBody == Body("empty", <<>>)
BodiesOver(texts) ==
    {Body(k, <<>>) : k \in {"empty", "malformed", "noelem", "rootelem", "notext"}}
        \cup {Body("text", t) : t \in texts}

\* parse_user_string_from_xml: does it raise, and what it returns otherwise
parse_raises(body) == body.kind # "text"
parse_user_string_from_xml(body) == strip(body.text)

\* ---------------------------------------------- Forwarding API: lifespan
\* the except branch leaving the handle as it is
lifespan_except_keeps_handle == bulb

\* the handle after the except branch of lifespan: bulb = None
lifespan_except == "None"

\* bulb = TuyaBulb(...): the handle is assigned before connect()
LifespanConstruct(ok) ==
    /\ phase = "startup"
    /\ IF ok
       THEN /\ bulb' = "obj"
            /\ phase' = "init"
       ELSE /\ bulb' = lifespan_except
            /\ phase' = "serving"
    /\ UNCHANGED <<initStep, allowIp, handled, tasks, deviceColor,
                   lastIssuer, interleaved>>

\* one operation of connect(); rojo(); verde(); azul(); blanco(); negro()
LifespanStep(ok) ==
    /\ phase = "init"
    /\ initStep < InitOps
    /\ IF ok
       THEN /\ initStep' = initStep + 1
            /\ deviceColor' = IF InitSeq[initStep + 1] = "connect"
                              THEN deviceColor ELSE InitSeq[initStep + 1]
            /\ phase' = IF initStep + 1 = InitOps THEN "serving" ELSE "init"
            /\ bulb' = bulb
       ELSE /\ bulb' = lifespan_except
            /\ phase' = "serving"
            /\ UNCHANGED <<initStep, deviceColor>>
    /\ UNCHANGED <<allowIp, handled, tasks, lastIssuer, interleaved>>

TaskFinished(t) == t.state \in {"done", "failed"}

\* after yield: bulb.off() when the handle is set, exceptions ignored
Shutdown(ok) ==
    /\ phase = "serving"
    /\ \A j \in DOMAIN tasks : TaskFinished(tasks[j])
    /\ phase' = "stopped"
    /\ deviceColor' = IF bulb # "None" /\ ok THEN "off" ELSE deviceColor
    /\ UNCHANGED <<bulb, initStep, allowIp, handled, tasks,
                   lastIssuer, interleaved>>

\* ------------------------------------------------ Forwarding API: routes
Response(route, client, body, code, status, echo, color) ==
    [route |-> route, client |-> client, body |-> body, code |-> code,
     status |-> status, echo |-> echo, color |-> color]

Task(req, fn, arg) ==
    [req |-> req, fn |-> fn, arg |-> arg, state |-> "scheduled",
     ops |-> <<>>, name |-> ""]

\* symphony_legacy parsing the body before it checks the handle
symphony_status_parse_first(client, body) ==
    IF allowIp # "" /\ client # "none" /\ client # allowIp THEN 403
    ELSE IF body.kind = "empty" THEN 400
    ELSE IF parse_raises(body) THEN 400
    ELSE IF bulb = "None" THEN 503
    ELSE 200

\* the status symphony_legacy answers with, by the order of its checks
symphony_status(client, body) ==
    IF allowIp # "" /\ client # "none" /\ client # allowIp THEN 403
    ELSE IF body.kind = "empty" THEN 400
    ELSE IF bulb = "None" THEN 503
    ELSE IF parse_raises(body) THEN 400
    ELSE 200

\* background.add_task(apply_code, user_string) of symphony_legacy
symphony_tasks(req, user_string) == <<Task(req, "apply_code", user_string)>>

symphony_legacy(client, body) ==
    /\ phase = "serving"
    /\ LET status == symphony_status(client, body)
           user_string == parse_user_string_from_xml(body)
           req == Len(handled) + 1
       IN IF status = 200
          THEN /\ tasks' = tasks \o symphony_tasks(req, user_string)
               /\ handled' = Append(handled,
                      Response("symphony", client, body, <<>>, 200, user_string,
                               COLOR_MAP_get(upper(user_string), "negro")))
          ELSE /\ tasks' = tasks
               /\ handled' = Append(handled,
                      Response("symphony", client, body, <<>>, status, <<>>, "-"))
    /\ UNCHANGED <<phase, bulb, initStep, allowIp, deviceColor,
                   lastIssuer, interleaved>>

\* tuya_test and tuya_code with the check of the handle inverted
tuya_status_inverted == IF bulb # "None" THEN 503 ELSE 200

\* the status of tuya_test and tuya_code
tuya_status == IF bulb = "None" THEN 503 ELSE 200

\* background.add_task(seq) of tuya_test
tuya_test_tasks(req) == <<Task(req, "seq", <<>>)>>

tuya_test ==
    /\ phase = "serving"
    /\ LET req == Len(handled) + 1 IN
       IF tuya_status = 200
       THEN /\ tasks' = tasks \o tuya_test_tasks(req)
            /\ handled' = Append(handled,
                   Response("test", "none", NoBody, <<>>, 200, <<>>, "-"))
       ELSE /\ tasks' = tasks
            /\ handled' = Append(handled,
                   Response("test", "none", NoBody, <<>>, 503, <<>>, "-"))
    /\ UNCHANGED <<phase, bulb, initStep, allowIp, deviceColor,
                   lastIssuer, interleaved>>

\* tuya_code adding its task twice
tuya_code_tasks_twice(req, c) ==
    <<Task(req, "apply_code", c), Task(req, "apply_code", c)>>

\* background.add_task(apply_code, c) of tuya_code
tuya_code_tasks(req, c) == <<Task(req, "apply_code", c)>>

\* the color tuya_code names in its response
tuya_code_color(c) == COLOR_MAP_get(c, "negro")

tuya_code(code) ==
    /\ phase = "serving"
    /\ LET req == Len(handled) + 1
           c == upper(code)
       IN IF tuya_status = 200
          THEN /\ tasks' = tasks \o tuya_code_tasks(req, c)
               /\ handled' = Append(handled,
                      Response("code", "none", NoBody, code, 200, c,
                               tuya_code_color(c)))
          ELSE /\ tasks' = tasks
               /\ handled' = Append(handled,
                      Response("code", "none", NoBody, code, 503, <<>>, "-"))
    /\ UNCHANGED <<phase, bulb, initStep, allowIp, deviceColor,
                   lastIssuer, interleaved>>

\* ------------------------------------- Forwarding API: background tasks
\* the device commands a task issues, from its start
TaskOps(t) == IF t.fn = "seq" THEN seq_ops ELSE apply_code_ops(t.arg)

\* One step of a background task, run in the thread pool after the response:
\* on its first step apply_code checks the handle and resolves the name, and
\* every step issues the next device command, which the device may refuse.
\* The tasks share the handle without a lock, so the steps of two tasks run
\* in any order; lastIssuer and interleaved record the order observed.
TaskRun(j, ok) ==
    /\ phase = "serving"
    /\ j \in DOMAIN tasks
    /\ ~TaskFinished(tasks[j])
    /\ LET t == tasks[j]
           first == t.state = "scheduled"
           ops == IF first THEN TaskOps(t) ELSE t.ops
           name == IF first /\ t.fn = "apply_code"
                   THEN apply_code_name(t.arg) ELSE t.name
       IN IF first /\ bulb = "None"
          THEN /\ tasks' = [tasks EXCEPT ![j].state = "failed"]
               /\ UNCHANGED <<deviceColor, lastIssuer, interleaved>>
          ELSE IF ok
          THEN /\ tasks' = [tasks EXCEPT
                                ![j].state = IF Len(ops) = 1 THEN "done"
                                             ELSE "running",
                                ![j].ops = Tail(ops),
                                ![j].name = name]
               /\ deviceColor' = Head(ops)
               /\ lastIssuer' = j
               /\ interleaved' = (interleaved \/ (~first /\ lastIssuer # j))
          ELSE /\ tasks' = [tasks EXCEPT ![j].state = "failed",
                                         ![j].ops = ops,
                                         ![j].name = name]
               /\ UNCHANGED <<deviceColor, lastIssuer, interleaved>>
    /\ UNCHANGED <<phase, bulb, initStep, allowIp, handled>>

\* ---------------------------------------- Forwarding API: specifications
\* codes and UserString texts of the multi-request specification
ApiCodes == {<<"a">>, <<"x">>}

InitApi ==
    /\ phase = "startup"
    /\ bulb = "None"
    /\ initStep = 0
    /\ allowIp \in {"", "ip1"}
    /\ handled = <<>>
    /\ tasks = <<>>
    /\ deviceColor = "unknown"
    /\ lastIssuer = 0
    /\ interleaved = FALSE
    /\ proxied = <<>>

\* a request is accepted while fewer than `limit` were handled
Open(limit) == Len(handled) < limit

\* ------------------------------------------- Forwarding API: engine client
\* How the engine answers a request of NodeRedClient:
\*   200       status 200 with a JSON body
\*   200text   status 200 with a body that is no JSON
\*   200bytes  status 200 with a body response.json() cannot decode as text
\*   204, 500  another success status, an error status
\*   ConnectError, Timeout   the httpx.RequestError kinds
\*   OtherError              any exception that is no httpx error
EngineReplies ==
    {"200", "200text", "200bytes", "204", "500",
     "ConnectError", "Timeout", "OtherError"}

\* the request raises instead of giving a response
reply_raises(reply) == reply \in {"ConnectError", "Timeout", "OtherError"}

\* response.status_code
status_code(reply) ==
    IF reply \in {"200", "200text", "200bytes"} THEN "200" ELSE reply

\* check_connection without its last `except Exception`
check_connection_no_catch_all(reply) ==
    IF reply = "ConnectError" THEN "disconnected"
    ELSE IF reply_raises(reply) THEN "raise"
    ELSE IF status_code(reply) = "200" THEN "connected"
    ELSE "error"

\* NodeRedClient.check_connection: the "status" of the record it returns
\* ("raise" would stand for an exception leaving it)
check_connection(reply) ==
    IF reply = "ConnectError" THEN "disconnected"
    ELSE IF reply_raises(reply) THEN "error"
    ELSE IF status_code(reply) = "200" THEN "connected"
    ELSE "error"

\* NodeRedClient.get_data: "json" or "wrapped" ({"data": text}) when it
\* returns, else the kind of the exception it lets through
get_data(reply) ==
    IF reply \in {"ConnectError", "Timeout"} THEN "RequestError"
    ELSE IF reply = "OtherError" THEN "OtherError"
    ELSE IF reply = "500" THEN "HTTPStatusError"
    ELSE IF reply = "200" THEN "json"
    ELSE IF reply = "200bytes" THEN "OtherError"
    ELSE "wrapped"

get_data_raises(result) ==
    result \in {"RequestError", "HTTPStatusError", "OtherError"}

Proxied(route, reply, status, detail) ==
    [route |-> route, reply |-> reply, status |-> status, detail |-> detail,
     tuya_initialized |-> bulb # "None"]

\* GET /api/health (node_red_client is set before the service serves)
health_check(reply) ==
    /\ phase = "serving"
    /\ LET node_red_status == check_connection(reply) IN
       proxied' = Append(proxied,
           IF node_red_status = "raise"
           THEN Proxied("health", reply, 503, "-")
           ELSE Proxied("health", reply, 200, node_red_status))
    /\ UNCHANGED apiVars

\* the status get_sensor_data answers with when get_data raises
sensor_error_status(result) == 502

\* GET /api/sensors
get_sensor_data(reply) ==
    /\ phase = "serving"
    /\ LET data == get_data(reply) IN
       proxied' = Append(proxied,
           IF get_data_raises(data)
           THEN Proxied("sensors", reply, sensor_error_status(data), "-")
           ELSE Proxied("sensors", reply, 200, data))
    /\ UNCHANGED apiVars

\* ------------------------------------------------- Flow Importer: inputs
MAX_RETRIES == 30

\* How the engine answers one request: an HTTP status, or "exc" when the
\* request raises (connection refused, timeout)
Replies == {"200", "204", "500", "exc"}

\* records of a flow list, as far as check_flows_exist reads them
FlowRecords ==
    {[type |-> "tab", label |-> "API Endpoints"],
     [type |-> "tab", label |-> "Other"],
     [type |-> "function", label |-> "API Endpoints"]}

FlowLists == UNION {[1..k -> FlowRecords] : k \in 0..MaxFlows}

\* Replies to GET /flows:
\*   exc      the request raises
\*   status   a status other than 200
\*   badjson  status 200 with a body response.json() cannot decode
\*   scalars  status 200 with a JSON list whose elements are not objects
\*   list     status 200 with a list of flow records
FlowsReply(kind, flows) == [kind |-> kind, flows |-> flows]
FlowsReplies ==
    {FlowsReply(k, <<>>) : k \in {"exc", "status", "badjson", "scalars"}}
        \cup {FlowsReply("list", l) : l \in FlowLists}

\* flows.json: missing, a non-empty JSON array, an empty JSON value ([]),
\* no JSON at all, or a file open() cannot read
FileStates == {"missing", "valid", "emptyjson", "invalid", "unreadable"}

Request(m, path, body) == [m |-> m, path |-> path, body |-> body]

endpoints_to_test == <<"/sensors", "/devices", "/status">>

\* -------------------------------------------------- Flow Importer: steps
\* get_current_flows: the decoded reply, or None
get_current_flows(reply) ==
    IF reply.kind \in {"list", "scalars"} THEN reply ELSE FlowsReply("None", <<>>)

\* check_flows_exist raises (AttributeError on flow.get) when a truthy reply
\* holds elements that are no objects
check_flows_exist_raises(current_flows) == current_flows.kind = "scalars"

\* check_flows_exist looking at the first tab only
check_flows_exist_first_tab(current_flows) ==
    IF current_flows.kind = "None" \/ current_flows.flows = <<>> THEN FALSE
    ELSE LET flow_tabs == SelectSeq(current_flows.flows,
                                    LAMBDA flow : flow.type = "tab")
         IN flow_tabs # <<>> /\ flow_tabs[1].label = "API Endpoints"

check_flows_exist(current_flows) ==
    IF current_flows.kind = "None" \/ current_flows.flows = <<>> THEN FALSE
    ELSE LET flow_tabs == SelectSeq(current_flows.flows,
                                    LAMBDA flow : flow.type = "tab")
         IN \E i \in DOMAIN flow_tabs : flow_tabs[i].label = "API Endpoints"

\* load_flows_file: "flows" (truthy), "empty" (falsy JSON), "None", or "raise"
load_flows_file(file) ==
    CASE file = "valid" -> "flows"
      [] file = "emptyjson" -> "empty"
      [] file = "missing" -> "None"
      [] file = "invalid" -> "None"
      [] OTHER -> "raise"

\* `if flows is None` in place of `if not flows`
load_proceeds_unless_none(flows) == flows # "None"

\* run() goes on after load_flows_file: the negation of `if not flows`
load_proceeds(flows) == flows = "flows"

\* import_flows / deploy_flows: status in [200, 204]
post_succeeds(reply) == reply \in {"200", "204"}

\* any 2xx status taken as working
endpoint_working_2xx(reply) == reply \in {"200", "204"}

\* one endpoint of verify_endpoints is working
endpoint_working(reply) == reply = "200"

\* run() returns `value`, or raises `value`, to main()
Return(value) ==
    /\ ipc' = "returned"
    /\ runResult' = value

InRun == ipc \in {"wait", "detect", "verify", "load", "install", "settle"}

\* main() going on to run() without looking for the file
flows_file_check_skipped(file) == FALSE

\* `not os.path.exists(FLOWS_FILE)` of main()
flows_file_missing(file) == file = "missing"

\* main(), up to the call of run(): the os.path.exists check
MainStart ==
    /\ ipc = "main"
    /\ IF flows_file_missing(fileState)
       THEN /\ ipc' = "exited"
            /\ exitCode' = 1
       ELSE /\ ipc' = "wait"
            /\ exitCode' = exitCode
    /\ UNCHANGED <<fileState, attempt, slept, sent, tabInReply, vphase, vreq,
                   vstat, allWorking, runResult, stepFailed>>

\* range(1, MAX_RETRIES + 1), with an off-by-one
retry_range_off_by_one == 1..(MAX_RETRIES + 1)

\* range(1, MAX_RETRIES + 1) of wait_for_node_red
retry_range == 1..MAX_RETRIES

\* does an iteration of wait_for_node_red sleep before the next one
wait_sleeps(reply, n) == reply = "exc" /\ n < MAX_RETRIES

\* one iteration of the loop of wait_for_node_red
WaitAttempt(reply) ==
    /\ ipc = "wait"
    /\ attempt \in retry_range
    /\ sent' = Append(sent, Request("GET", "/", "-"))
    /\ IF reply = "200"
       THEN /\ ipc' = "detect"
            /\ UNCHANGED <<attempt, runResult, stepFailed>>
            /\ slept' = FALSE
       ELSE /\ slept' = wait_sleeps(reply, attempt)
            /\ IF attempt + 1 \in retry_range
               THEN /\ attempt' = attempt + 1
                    /\ UNCHANGED <<ipc, runResult, stepFailed>>
               ELSE /\ attempt' = attempt
                    /\ stepFailed' = stepFailed \cup {"wait"}
                    /\ Return("False")
    /\ UNCHANGED <<fileState, tabInReply, vphase, vreq, vstat, allWorking,
                   exitCode>>

\* the reply to GET /flows lists a tab labelled "API Endpoints"
HasTargetTab(reply) ==
    /\ reply.kind = "list"
    /\ \E i \in DOMAIN reply.flows :
           reply.flows[i] = [type |-> "tab", label |-> "API Endpoints"]

\* run(), step 2: check_flows_exist and the branch on its result
DetectExisting(reply) ==
    /\ ipc = "detect"
    /\ sent' = Append(sent, Request("GET", "/flows", "-"))
    /\ tabInReply' = HasTargetTab(reply)
    /\ LET current_flows == get_current_flows(reply) IN
       /\ stepFailed' = IF current_flows.kind = "None"
                        THEN stepFailed \cup {"detect"} ELSE stepFailed
       /\ IF check_flows_exist_raises(current_flows)
          THEN /\ Return("Exception")
               /\ UNCHANGED <<vphase, vreq, vstat, allWorking>>
          ELSE IF check_flows_exist(current_flows)
          THEN /\ ipc' = "verify"
               /\ vphase' = "existing"
               /\ vreq' = <<>>
               /\ vstat' = <<>>
               /\ allWorking' = TRUE
               /\ runResult' = runResult
          ELSE /\ ipc' = "load"
               /\ UNCHANGED <<vphase, vreq, vstat, allWorking, runResult>>
    /\ UNCHANGED <<fileState, attempt, slept, exitCode>>

\* one iteration of the loop of verify_endpoints
VerifyStep(reply) ==
    /\ ipc = "verify"
    /\ Len(vreq) < Len(endpoints_to_test)
    /\ LET endpoint == endpoints_to_test[Len(vreq) + 1] IN
       /\ sent' = Append(sent, Request("GET", endpoint, "-"))
       /\ vreq' = Append(vreq, endpoint)
       /\ vstat' = Append(vstat, reply)
       /\ allWorking' = (allWorking /\ endpoint_working(reply))
    /\ UNCHANGED <<ipc, fileState, attempt, slept, tabInReply, vphase,
                   runResult, stepFailed, exitCode>>

\* verify_endpoints returns all_working; run() branches on it
VerifyReturn ==
    /\ ipc = "verify"
    /\ Len(vreq) = Len(endpoints_to_test)
    /\ stepFailed' = IF allWorking THEN stepFailed
                     ELSE stepFailed \cup {"verify"}
    /\ IF allWorking
       THEN Return("True")
       ELSE IF vphase = "existing"
       THEN /\ ipc' = "load"
            /\ runResult' = runResult
       ELSE Return("False")
    /\ UNCHANGED <<fileState, attempt, slept, sent, tabInReply, vphase, vreq,
                   vstat, allWorking, exitCode>>

\* run(), step 3: load_flows_file and `if not flows`
LoadFlows ==
    /\ ipc = "load"
    /\ LET flows == load_flows_file(fileState) IN
       /\ stepFailed' = IF flows \in {"None", "empty"}
                        THEN stepFailed \cup {"load"} ELSE stepFailed
       /\ IF flows = "raise"
          THEN Return("Exception")
          ELSE IF load_proceeds(flows)
          THEN /\ ipc' = "install"
               /\ runResult' = runResult
          ELSE Return("False")
    /\ UNCHANGED <<fileState, attempt, slept, sent, tabInReply, vphase, vreq,
                   vstat, allWorking, exitCode>>

\* the requests run() sends once the flows are loaded, up to the settle
\* delay: import_flows only (deploy_flows is defined and never called)
install_requests == <<Request("POST", "/flows", "flows")>>

\* run(), step 4: import_flows
InstallFlows(reply) ==
    /\ ipc = "install"
    /\ sent' = sent \o install_requests
    /\ stepFailed' = IF reply \in {"200", "204"}
                     THEN stepFailed ELSE stepFailed \cup {"install"}
    /\ IF post_succeeds(reply)
       THEN /\ ipc' = "settle"
            /\ runResult' = runResult
       ELSE Return("False")
    /\ UNCHANGED <<fileState, attempt, slept, tabInReply, vphase, vreq, vstat,
                   allWorking, exitCode>>

\* run(), step 5: asyncio.sleep(3), then the final verify_endpoints starts
Settle ==
    /\ ipc = "settle"
    /\ ipc' = "verify"
    /\ vphase' = "final"
    /\ vreq' = <<>>
    /\ vstat' = <<>>
    /\ allWorking' = TRUE
    /\ UNCHANGED <<fileState, attempt, slept, sent, tabInReply, runResult,
                   stepFailed, exitCode>>

\* SIGINT during run(). delivery = "raised": KeyboardInterrupt is raised in
\* the coroutine's own code and reaches main()'s handler. delivery =
\* "cancelled": the interrupt arrives while run() is suspended at an await;
\* asyncio.run cancels the main task, the CancelledError passes both
\* handlers of main() and KeyboardInterrupt is raised again outside main().
Interrupt(delivery) ==
    /\ InRun
    /\ Return(IF delivery = "raised" THEN "KeyboardInterrupt" ELSE "Cancelled")
    /\ UNCHANGED <<fileState, attempt, slept, sent, tabInReply, vphase, vreq,
                   vstat, allWorking, stepFailed, exitCode>>

\* the exit status main() and asyncio.run(main()) end the process with
main_exit_code(result) ==
    CASE result = "True" -> 0
      [] result = "False" -> 1
      [] result = "KeyboardInterrupt" -> 2
      [] result = "Exception" -> 3
      [] OTHER -> 130

MainExit ==
    /\ ipc = "returned"
    /\ ipc' = "exited"
    /\ exitCode' = main_exit_code(runResult)
    /\ UNCHANGED <<fileState, attempt, slept, sent, tabInReply, vphase, vreq,
                   vstat, allWorking, runResult, stepFailed>>

InitImp ==
    /\ ipc = "main"
    /\ fileState \in FileStates
    /\ attempt = 1
    /\ slept = FALSE
    /\ sent = <<>>
    /\ tabInReply = FALSE
    /\ vphase = "none"
    /\ vreq = <<>>
    /\ vstat = <<>>
    /\ allWorking = TRUE
    /\ runResult = "running"
    /\ stepFailed = {}
    /\ exitCode = -1

\* ------------------------------------------------------- specifications
\* The two programs are separate processes: each specification runs one of
\* them and leaves the other at its initial state.
ImpIdle ==
    /\ InitImp
    /\ fileState = "valid"

ApiIdle ==
    /\ InitApi
    /\ allowIp = ""

NextApi ==
    \/ \E ok \in BOOLEAN : LifespanConstruct(ok) /\ UNCHANGED <<impVars, cliVars>>
    \/ \E ok \in BOOLEAN : LifespanStep(ok) /\ UNCHANGED <<impVars, cliVars>>
    \/ \E client \in Clients, body \in BodiesOver(ApiCodes) :
           Open(MaxReq) /\ symphony_legacy(client, body) /\ UNCHANGED <<impVars, cliVars>>
    \/ Open(MaxReq) /\ tuya_test /\ UNCHANGED <<impVars, cliVars>>
    \/ \E code \in ApiCodes :
           Open(MaxReq) /\ tuya_code(code) /\ UNCHANGED <<impVars, cliVars>>
    \/ \E j \in DOMAIN tasks, ok \in BOOLEAN :
           TaskRun(j, ok) /\ UNCHANGED <<impVars, cliVars>>
    \/ \E ok \in BOOLEAN : Shutdown(ok) /\ UNCHANGED <<impVars, cliVars>>

\* one request, with every code and text up to MaxLen characters
NextCode ==
    \/ \E ok \in BOOLEAN : LifespanConstruct(ok) /\ UNCHANGED <<impVars, cliVars>>
    \/ \E ok \in BOOLEAN : LifespanStep(ok) /\ UNCHANGED <<impVars, cliVars>>
    \/ \E client \in Clients, body \in BodiesOver(Strings(MaxLen)) :
           Open(1) /\ symphony_legacy(client, body) /\ UNCHANGED <<impVars, cliVars>>
    \/ \E code \in Strings(MaxLen) :
           Open(1) /\ tuya_code(code) /\ UNCHANGED <<impVars, cliVars>>
    \/ \E j \in DOMAIN tasks, ok \in BOOLEAN :
           TaskRun(j, ok) /\ UNCHANGED <<impVars, cliVars>>

\* the routes that forward to the engine
NextClient ==
    \/ \E ok \in BOOLEAN :
           LifespanConstruct(ok) /\ UNCHANGED <<impVars, cliVars>>
    \/ \E ok \in BOOLEAN : LifespanStep(ok) /\ UNCHANGED <<impVars, cliVars>>
    \/ \E reply \in EngineReplies :
           Len(proxied) < MaxReq /\ health_check(reply) /\ UNCHANGED impVars
    \/ \E reply \in EngineReplies :
           Len(proxied) < MaxReq /\ get_sensor_data(reply) /\ UNCHANGED impVars

NextImp ==
    \/ MainStart /\ UNCHANGED <<apiVars, cliVars>>
    \/ \E reply \in Replies : WaitAttempt(reply) /\ UNCHANGED <<apiVars, cliVars>>
    \/ \E reply \in FlowsReplies : DetectExisting(reply) /\ UNCHANGED <<apiVars, cliVars>>
    \/ \E reply \in Replies : VerifyStep(reply) /\ UNCHANGED <<apiVars, cliVars>>
    \/ VerifyReturn /\ UNCHANGED <<apiVars, cliVars>>
    \/ LoadFlows /\ UNCHANGED <<apiVars, cliVars>>
    \/ \E reply \in Replies : InstallFlows(reply) /\ UNCHANGED <<apiVars, cliVars>>
    \/ Settle /\ UNCHANGED <<apiVars, cliVars>>
    \/ \E delivery \in {"raised", "cancelled"} :
           Interrupt(delivery) /\ UNCHANGED <<apiVars, cliVars>>
    \/ MainExit /\ UNCHANGED <<apiVars, cliVars>>

InitApiSpec ==
    /\ InitApi
    /\ ImpIdle

InitImpSpec ==
    /\ InitImp
    /\ ApiIdle

SpecApi == InitApiSpec /\ [][NextApi]_vars

SpecCode == InitApiSpec /\ [][NextCode]_vars

SpecClient == InitApiSpec /\ [][NextClient]_vars

SpecImporter == InitImpSpec /\ [][NextImp]_vars

\* ================================================================ claims
\* The code names the colors in Spanish: verde = green, rojo = red,
\* azul = blue, blanco = white, negro = black.

\* the color the specification gives a code: by its letter in any case,
\* black for every other input
ExpectedColor(code) ==
    LET u == upper(code) IN
    IF u = <<"A">> THEN "verde"
    ELSE IF u = <<"V">> THEN "rojo"
    ELSE IF u = <<"B">> THEN "azul"
    ELSE IF u = <<"R">> THEN "blanco"
    ELSE "negro"

\* the tasks scheduled for request i
TasksOf(i) == {j \in DOMAIN tasks : tasks[j].req = i}

\* C1: for every input code, the color resolved by the code route and by
\* apply_code is green for A, red for V, blue for B, white for R in any letter
\* case, and black for every other input, the empty string included.
C1_ColorByCode ==
    /\ \A i \in DOMAIN handled :
           handled[i].route = "code" /\ handled[i].status = 200
               => handled[i].color = ExpectedColor(handled[i].code)
    /\ \A j \in DOMAIN tasks :
           tasks[j].fn = "apply_code" /\ tasks[j].state # "scheduled"
               => tasks[j].name = ExpectedColor(tasks[j].arg)

\* ---- importer: what was sent
Posts == {i \in DOMAIN sent : sent[i].m = "POST"}
RootGets == {i \in DOMAIN sent : sent[i] = Request("GET", "/", "-")}
Interrupted == runResult \in {"KeyboardInterrupt", "Cancelled"}

\* C2 as stated: once the reply to GET /flows holds the target tab, the run
\* sends no POST /flows, whatever the verification result.
C2_NeverUploads ==
    tabInReply => Posts = {}

\* C2 as amended: with the target tab in the reply, the run goes from
\* GET /flows directly to the verification sweep and sends no POST /flows
\* before that sweep has ended; it sends none at all when the sweep passes,
\* and uploads only after the sweep has failed.
C2_SkipsUploadUntilVerified ==
    tabInReply =>
        /\ vphase # "none"
        /\ \A i \in DOMAIN sent :
               sent[i] = Request("GET", "/flows", "-") /\ i < Len(sent)
                   => sent[i + 1] = Request("GET", endpoints_to_test[1], "-")
        /\ (vphase = "existing" /\ ipc = "verify") => Posts = {}
        /\ Posts # {} => "verify" \in stepFailed
        /\ (runResult = "True" /\ vphase = "existing") => Posts = {}

\* the run found the tab, verified and ended in success without an upload
C2_Witness ==
    /\ tabInReply
    /\ exitCode = 0
    /\ vphase = "existing"
    /\ Posts = {}

\* C3: wait_for_node_red sends at most MAX_RETRIES requests GET /, one per
\* attempt, exactly MAX_RETRIES when none succeeds, and then returns failure,
\* whatever the engine replies.
C3_AwaitReadyBounded ==
    /\ Cardinality(RootGets) <= MAX_RETRIES
    /\ ipc = "wait" =>
           /\ attempt \in 1..MAX_RETRIES
           /\ Cardinality(RootGets) = attempt - 1
    /\ "wait" \in stepFailed =>
           /\ Cardinality(RootGets) = MAX_RETRIES
           /\ Len(sent) = MAX_RETRIES
           /\ runResult = "False"
           /\ ipc \in {"returned", "exited"}
    /\ InRun /\ ipc # "wait" => Cardinality(RootGets) \in 1..MAX_RETRIES

\* every attempt failed and the process exited with 1
C3_Witness ==
    /\ "wait" \in stepFailed
    /\ Cardinality(RootGets) = MAX_RETRIES
    /\ exitCode = 1

\* C4: once Install has succeeded, a Deploy request (POST /flows with
\* {type: "full"}) follows it before the settle delay and the verification.
C4_DeployAfterInstall ==
    (ipc = "settle" \/ vphase = "final") =>
        \E i, j \in DOMAIN sent :
            /\ i < j
            /\ sent[i] = Request("POST", "/flows", "flows")
            /\ sent[j] = Request("POST", "/flows", "deploy")

\* ---- C5
Ended == ipc \in {"returned", "exited"}
LastSent == sent[Len(sent)]

\* C5 as stated: a failure of Await-Ready, of the flow-list fetch of
\* Detect-Existing, of Load or of Install ends the run at once with a failure
\* result.
C5_EveryFailureTerminal ==
    stepFailed \cap {"wait", "detect", "load", "install"} # {}
        => Ended /\ runResult = "False"

\* C5 as amended: a failure of Await-Ready, Load or Install ends the run at
\* once with a failure result, the failed step's request being the last one
\* sent; a failed flow-list fetch does not end the run, which goes on to Load
\* as if the flows were not installed.
C5_TerminalFailures ==
    /\ stepFailed \cap {"wait", "load", "install"} # {}
           => /\ Ended
              /\ runResult = "False"
              /\ exitCode \in {-1, 1}
    /\ "wait" \in stepFailed
           => LastSent = Request("GET", "/", "-") /\ Len(sent) = MAX_RETRIES
    /\ "load" \in stepFailed
           => /\ Posts = {}
              /\ LastSent \in {Request("GET", "/flows", "-"),
                               Request("GET", "/status", "-")}
    /\ "install" \in stepFailed
           => /\ LastSent = Request("POST", "/flows", "flows")
              /\ Cardinality(Posts) = 1
    /\ "detect" \in stepFailed
           => /\ ~tabInReply
              /\ vphase # "existing"
              /\ ipc # "verify" \/ vphase = "final"
              /\ ipc = "load" => LastSent = Request("GET", "/flows", "-")

\* the flow-list fetch failed, the run went on, and Install then ended it
C5_Witness ==
    /\ stepFailed = {"detect", "install"}
    /\ exitCode = 1

\* ---- C6
SweepDone == Len(vreq) = Len(endpoints_to_test)

\* C6 as stated: the sweep reports success exactly when every endpoint
\* answered with a 2xx status.
C6_SuccessIffAll2xx ==
    SweepDone =>
        (allWorking <=> \A i \in DOMAIN vstat : vstat[i] \in {"200", "204"})

\* C6 as amended: the sweep requests every path of the fixed list once, in
\* order, whatever the earlier outcomes, and reports success exactly when
\* every endpoint answered with status 200.
C6_SweepComplete ==
    /\ Len(vstat) = Len(vreq)
    /\ Len(vreq) <= Len(endpoints_to_test)
    /\ vreq = SubSeq(endpoints_to_test, 1, Len(vreq))
    /\ allWorking <=> \A i \in DOMAIN vstat : vstat[i] = "200"
    /\ ipc = "verify" =>
           \A i \in DOMAIN vreq :
               sent[Len(sent) - Len(vreq) + i] = Request("GET", vreq[i], "-")
    /\ (vphase # "none" /\ ipc # "verify" /\ ~Interrupted) => SweepDone
    /\ (runResult = "True") => SweepDone /\ allWorking
    /\ (runResult = "False" /\ vphase = "final" /\ "install" \notin stepFailed
            /\ "load" \notin stepFailed)
           => SweepDone /\ ~allWorking

\* a sweep that went on after an exception and a failing status
C6_Witness ==
    /\ SweepDone
    /\ vstat = <<"exc", "500", "200">>
    /\ runResult = "False"

\* ---- C7
\* C7: exit code 0 exactly when the run ends in success, 1 when it ends in
\* failure, 2 on a user interrupt, 3 on an unexpected exception.
C7_ExitCodes ==
    ipc = "exited" =>
        /\ exitCode = 0 <=> runResult = "True"
        /\ runResult \in {"False", "running"} => exitCode = 1
        /\ Interrupted => exitCode = 2
        /\ runResult = "Exception" => exitCode = 3

\* ---- C8
Disallowed(r) ==
    allowIp # "" /\ r.client # "none" /\ r.client # allowIp

\* C8 as stated: an XML body without <UserString> is answered 400 and no
\* dispatch is scheduled, whatever the state of the device handle.
C8_NoUserStringIs400 ==
    \A i \in DOMAIN handled :
        handled[i].route = "symphony" /\ handled[i].body.kind = "noelem"
            => handled[i].status = 400 /\ TasksOf(i) = {}

\* C8 as amended: an XML body without <UserString> never schedules a
\* dispatch; it is answered 400 when the caller passes the address check and
\* the device handle is set, 403 when the caller is not allowed, and 503 when
\* the caller is allowed and the handle is null.
C8_NoUserStringRejected ==
    \A i \in DOMAIN handled :
        handled[i].route = "symphony" /\ handled[i].body.kind = "noelem"
            => /\ TasksOf(i) = {}
               /\ handled[i].status =
                      IF Disallowed(handled[i]) THEN 403
                      ELSE IF bulb = "None" THEN 503
                      ELSE 400

\* a document without <UserString> answered 400 with the handle set
C8_Witness ==
    \E i \in DOMAIN handled :
        /\ handled[i].route = "symphony"
        /\ handled[i].body.kind = "noelem"
        /\ handled[i].status = 400
        /\ bulb = "obj"

\* ---- C9
\* C9 as stated: with a null handle every request to a dispatch route is
\* answered 503, whatever its body or caller.
C9_NullHandleAlways503 ==
    bulb = "None" => \A i \in DOMAIN handled : handled[i].status = 503

\* C9 as amended: with a null handle no request schedules a dispatch and no
\* device operation happens; the code and test routes answer 503, and the
\* notification route answers 503 unless it has already rejected the caller
\* (403) or an empty body (400).
C9_NullHandleRejects ==
    (bulb = "None" /\ phase # "startup") =>
        /\ tasks = <<>>
        /\ deviceColor # "off"
        /\ \A i \in DOMAIN handled :
               handled[i].status =
                   IF handled[i].route # "symphony" THEN 503
                   ELSE IF Disallowed(handled[i]) THEN 403
                   ELSE IF handled[i].body.kind = "empty" THEN 400
                   ELSE 503

\* with a null handle, each dispatch route has answered 503
C9_Witness ==
    /\ bulb = "None"
    /\ Len(handled) = MaxReq
    /\ \E i, k \in DOMAIN handled :
           /\ handled[i].route = "symphony"
           /\ handled[i].body.kind = "text"
           /\ handled[i].status = 503
           /\ handled[k].route \in {"code", "test"}
           /\ handled[k].status = 503

\* ---- C10
\* C10 (state part): on the notification and code routes a dispatch is
\* scheduled once for a request answered with success and never for one
\* rejected with 400, 403 or 503, and a dispatch that has started belongs to
\* a request whose response is already given.
C10_ScheduledOncePerSuccess ==
    /\ \A i \in DOMAIN handled :
           handled[i].route \in {"symphony", "code"} =>
               /\ handled[i].status \in {200, 400, 403, 503}
               /\ Cardinality(TasksOf(i)) =
                      IF handled[i].status = 200 THEN 1 ELSE 0
    /\ \A j \in DOMAIN tasks :
           /\ tasks[j].req \in DOMAIN handled
           /\ handled[tasks[j].req].status = 200

\* C10 (step part): no step, a failing dispatch included, changes a response
\* already given.
C10_ResponseKept ==
    \A i \in DOMAIN handled : i \in DOMAIN handled' /\ handled'[i] = handled[i]

\* C10: both parts
C10_FireAndForget ==
    []C10_ScheduledOncePerSuccess /\ [][C10_ResponseKept]_vars

\* a dispatch failed at the device and its request still reads success
C10_Witness ==
    \E j \in DOMAIN tasks :
        /\ tasks[j].state = "failed"
        /\ tasks[j].fn = "apply_code"
        /\ handled[tasks[j].req].status = 200

\* ---- C11
\* the handle is null, or set with the whole startup sequence completed
NullOrInitialized ==
    \/ bulb = "None"
    \/ bulb = "obj" /\ initStep = InitOps

\* C11: whenever a route handler or a background dispatch can run or has
\* run, the handle is null or fully initialized; a failure at any step of
\* the startup leaves the handle null with the service serving.
C11_HandleNullOrInitialized ==
    /\ phase \in {"serving", "stopped"} => NullOrInitialized
    /\ (handled # <<>> \/ tasks # <<>>) => NullOrInitialized
    /\ (phase \in {"serving", "stopped"} /\ initStep < InitOps)
           => bulb = "None"
    /\ phase \in {"startup", "init"} => handled = <<>> /\ tasks = <<>>

\* the startup failed after connect and two colors, and a request was
\* answered 503 by the serving process
C11_Witness ==
    /\ phase = "serving"
    /\ initStep = 3
    /\ bulb = "None"
    /\ \E i \in DOMAIN handled : handled[i].status = 503

\* ---- C12
\* the state the claim gives each outcome of GET /
ExpectedConnectionState(reply) ==
    IF reply \in {"200", "200text", "200bytes"} THEN "connected"
    ELSE IF reply = "ConnectError" THEN "disconnected"
    ELSE "error"

\* C12: check_connection never raises and returns connected exactly for
\* status 200, disconnected exactly for a refused connection and error for
\* every other outcome; the health route therefore always answers with a
\* status record, never with a failure.
C12_HealthNeverFails ==
    \A i \in DOMAIN proxied :
        proxied[i].route = "health" =>
            /\ proxied[i].status = 200
            /\ proxied[i].detail = ExpectedConnectionState(proxied[i].reply)

\* the health route answered after a timeout and after a refused connection
C12_Witness ==
    \E i, k \in DOMAIN proxied :
        /\ proxied[i].route = "health"
        /\ proxied[i].reply = "Timeout"
        /\ proxied[i].detail = "error"
        /\ proxied[k].route = "health"
        /\ proxied[k].reply = "ConnectError"
        /\ proxied[k].detail = "disconnected"

\* ---- C13
\* C13: on the sensors route an upstream error (engine status outside 2xx,
\* engine unreachable) gives 502 and any other exception gives 500.
C13_ErrorsMappedByKind ==
    \A i \in DOMAIN proxied :
        proxied[i].route = "sensors" =>
            /\ proxied[i].reply \in {"500", "ConnectError", "Timeout"}
                   => proxied[i].status = 502
            /\ proxied[i].reply \in {"200bytes", "OtherError"}
                   => proxied[i].status = 500

\* ---- C14
\* C14: between two consecutive attempts GET / the importer waits the retry
\* interval, whatever way the earlier attempt failed (exception, timeout or
\* non-success status), and it does not wait after the last attempt.
C14_FixedInterval ==
    /\ (ipc = "wait" /\ attempt > 1) => slept
    /\ "wait" \in stepFailed => ~slept

\* ---- C15
\* the color a dispatch leaves on the device when it runs alone
FinalColor(t) == IF t.fn = "seq" THEN "negro" ELSE t.name

\* C15: the dispatches write to the shared device with no ordering: the color
\* of the device is that of the last command it accepted, so once the task
\* that issued that command has completed, the device shows the final color
\* of that task, whichever request it belongs to.
C15_LastWriteWins ==
    (phase = "serving" /\ lastIssuer # 0 /\ tasks[lastIssuer].state = "done")
        => deviceColor = FinalColor(tasks[lastIssuer])

\* two dispatches ran with their commands interleaved, both completed, and
\* the device does not show the color of the request accepted last
C15_Witness ==
    /\ phase = "serving"
    /\ Len(tasks) = 2
    /\ tasks[1].req # tasks[2].req
    /\ \A j \in DOMAIN tasks : tasks[j].state = "done"
    /\ interleaved
    /\ lastIssuer = 1
    /\ deviceColor # FinalColor(tasks[2])

\* ---- C16
\* C16: for every request accepted by the code route or the notification
\* route, the color named in the response is the color its background
\* dispatch applies to the device, for every input string.
C16_ResponseNamesDispatchedColor ==
    \A j \in DOMAIN tasks :
        tasks[j].fn = "apply_code" /\ tasks[j].state \in {"running", "done"}
            => /\ handled[tasks[j].req].status = 200
               /\ handled[tasks[j].req].color = tasks[j].name

\* ---- C17
\* every answer the engine gave so far is that of an engine which is up, has
\* the target flows installed and serves every verification endpoint, and
\* the run was not interrupted
EngineInstalledAndWorking ==
    /\ stepFailed = {}
    /\ ~Interrupted
    /\ Request("GET", "/flows", "-") \in {sent[i] : i \in DOMAIN sent}
           => tabInReply

\* C17 as stated: against an engine that has the target flows installed and
\* all verification endpoints working, the importer ends with exit code 0
\* whether or not the flow definition file can be loaded.
C17_RerunAlwaysSucceeds ==
    (ipc = "exited" /\ EngineInstalledAndWorking) => exitCode = 0

\* C17 as amended: against such an engine the importer ends with exit code 0
\* and without an upload whenever the flow definition file exists, even if it
\* cannot be read or parsed, because Load is reached only after
\* Detect-Existing (or the failed verification that follows it) has decided
\* that an upload is needed; when the file does not exist the importer ends
\* with exit code 1 before it sends any request.
C17_RerunSucceedsIfFileExists ==
    /\ (ipc = "exited" /\ EngineInstalledAndWorking /\ fileState # "missing")
           => exitCode = 0 /\ Posts = {}
    /\ ipc = "load"
           => /\ Request("GET", "/flows", "-") \in {sent[i] : i \in DOMAIN sent}
              /\ ~tabInReply \/ "verify" \in stepFailed
    /\ (fileState = "missing" /\ ipc # "main")
           => ipc = "exited" /\ exitCode = 1 /\ sent = <<>>

\* a re-run with a file that exists and cannot be loaded ended in success
C17_Witness ==
    /\ ipc = "exited"
    /\ fileState \in {"invalid", "unreadable"}
    /\ EngineInstalledAndWorking
    /\ tabInReply
    /\ exitCode = 0

====
